---- MODULE Spec2Model ----
(***************************************************************************)
(* Model of the AI provider clients (MistralClient, OpenAIClient): the     *)
(* retry loop of generateResponse / generateStreamingResponse, the error   *)
(* classification of the outer catch, and the stream data / end handlers;  *)
(* and of the inventory routes (chat /intent, chat /order, admin           *)
(* /update-stock, admin /order/:id); of AIClientManager.getClient and the *)
(* conversational turns (webhook, session messages); and of concurrent     *)
(* admin requests on the catalog.                                          *)
(***************************************************************************)
EXTENDS Integers, Sequences, FiniteSets, TLC

\* ------------------------------------------------------------------ bounds
\* longest response stream (in lines) the vendor sends
MaxLines == 3
\* largest stock level an admin enters
MaxStock == 1
\* most order requests recorded
MaxOrders == 1

\* ------------------------------------------------------- program constants
\* const maxRetries = 3
maxRetries == 3
\* Math.min(..., 10000) in OpenAIClient
DelayCap == 10000

Clients == {"mistral", "openai"}
Modes == {"buffered", "stream"}

\* Math.random() * 1000: a value in [0, 1000); the extremes, in whole ms
Jitters == {0, 999}

\* ------------------------------------------------------------------ errors
\* What the axios call can reject with.
\*   http : error.response is set (status, data); error.request is set too
\*   net  : no error.response; error.request and error.code are set
\*   plain: neither response nor request nor code (e.g. a TypeError)
Statuses == {400, 401, 403, 404, 429, 500, 502}

\* Shapes of error.response.data:
\*   none        no body
\*   noerror     an object without an `error` field
\*   errstr      {error: "<text without 'model not found'>"}
\*   errstr_mnf  {error: "... model not found ..."}
\*   errobj      {error: {message: "<text without 'model'>"}}
\*   errobj_model {error: {message: "... model ... not found"}}
\*   stream      a stream object (responseType: 'stream'): no `error` field
BufferedBodies == {"none", "noerror", "errstr", "errstr_mnf", "errobj", "errobj_model"}
StreamBodies == {"stream"}

NetCodes == {"ECONNRESET", "ETIMEDOUT", "ECONNABORTED", "ENOTFOUND", "EAI_AGAIN", "NOCODE"}

NoErr == [kind |-> "none", status |-> 0, body |-> "none", code |-> "NOCODE", timeoutMsg |-> FALSE]

HttpErr(s, b) == [kind |-> "http", status |-> s, body |-> b, code |-> "NOCODE", timeoutMsg |-> FALSE]

NetErr(c, t) == [kind |-> "net", status |-> 0, body |-> "none", code |-> c, timeoutMsg |-> t]

\* an error object with neither response nor request (a TypeError raised in the handler)
PlainErr == [kind |-> "plain", status |-> 0, body |-> "none", code |-> "NOCODE", timeoutMsg |-> FALSE]

Errors(m) ==
  {HttpErr(s, b) : s \in Statuses, b \in (IF m = "stream" THEN StreamBodies ELSE BufferedBodies)}
    \cup {NetErr(c, t) : c \in NetCodes, t \in BOOLEAN}
    \cup {PlainErr}

\* ------------------------------------------------------- retry decisions
\* The result of _shouldRetryRequest(error): "retry" (returns true), "fail"
\* (returns false) or "throw" (the function itself raises a TypeError).
\* Mistral_shouldRetryRequest without its check of status 400
Mistral_shouldRetryRequest_No400(e) ==
  IF e.kind = "http" /\ e.status = 401 THEN "fail"
  ELSE IF e.kind = "http" /\ e.status = 404 THEN "fail"
  ELSE IF e.kind # "http" THEN "throw"
  ELSE IF e.body = "errstr_mnf" THEN "fail"
  ELSE IF e.body \in {"errobj", "errobj_model"} THEN "throw"
  ELSE "retry"

Mistral_shouldRetryRequest(e) ==
  IF e.kind = "http" /\ e.status = 401 THEN "fail"
  ELSE IF e.kind = "http" /\ e.status = 400 THEN "fail"
  ELSE IF e.kind = "http" /\ e.status = 404 THEN "fail"
  \* left operand of || is falsy: error.response.data is evaluated next
  ELSE IF e.kind # "http" THEN "throw"
  ELSE IF e.body = "errstr_mnf" THEN "fail"
  \* data.error is an object: data.error.includes is not a function
  ELSE IF e.body \in {"errobj", "errobj_model"} THEN "throw"
  ELSE IF e.status = 429 THEN "retry"
  ELSE IF e.status >= 500 THEN "retry"
  ELSE "retry"

OpenAI_shouldRetryRequest(e) ==
  IF e.kind = "http"
    THEN IF e.status = 400 \/ e.status = 401 \/ e.status = 404
           THEN "fail"
           ELSE IF e.status = 429 \/ e.status >= 500 THEN "retry" ELSE "fail"
    ELSE IF e.code = "ECONNRESET" \/ e.code = "ETIMEDOUT" \/ e.code = "ECONNABORTED"
              \/ e.timeoutMsg
           THEN "retry"
           ELSE "fail"

shouldRetryRequest(c, e) ==
  IF c = "mistral" THEN Mistral_shouldRetryRequest(e) ELSE OpenAI_shouldRetryRequest(e)

\* 2^n for the small exponents the loop reaches (Math.pow(2, retries))
Pow2(n) == IF n = 0 THEN 1 ELSE IF n = 1 THEN 2 ELSE IF n = 2 THEN 4 ELSE 8

Min(a, b) == IF a <= b THEN a ELSE b

\* a backoff that grows linearly
MistralDelay_Linear(r, jitter) == r * 1000 + jitter

\* the delay waited after the retries-th failure, in ms
MistralDelay(r, jitter) == Pow2(r) * 1000 + jitter

OpenAIDelay(r, jitter) == Min(1000 * Pow2(r) + jitter, DelayCap)

backoffDelay(c, r, jitter) ==
  IF c = "mistral" THEN MistralDelay(r, jitter) ELSE OpenAIDelay(r, jitter)

\* ------------------------------------------------- failure classification
\* The outer catch of generateResponse (both clients) and of
\* MistralClient.generateStreamingResponse: the Error that is thrown.
ThrownKind(e) ==
  IF e.kind = "http"
    THEN IF e.status = 401 THEN "Authentication"
         ELSE IF e.status = 429 THEN "RateLimit"
         ELSE IF e.status >= 500 THEN "ServerError"
         ELSE "Generic"
    ELSE IF e.kind = "net" THEN "NoResponse"
    ELSE "Generic"

\* The outer catch of OpenAIClient.generateStreamingResponse: the {error}
\* payload handed to onChunk.
OpenAIStreamErrorKind(e) ==
  IF e.kind = "http"
    THEN IF e.status = 401 THEN "Authentication"
         ELSE IF e.status = 429 THEN "RateLimit"
         ELSE IF e.status >= 500 THEN "ServerError"
         ELSE "ApiStatus"
    ELSE IF e.kind = "net" THEN "NoResponse"
    ELSE "Generic"

\* ------------------------------------------------------ response streams
\* text of a content delta
Contents == {"a", "b"}

\* One line of the event stream, as the vendor writes it:
\*   delta   data: {"choices":[{"delta":{"content":"<c>"}}]}
\*   nodelta data: {"choices":[{"delta":{}}]}   (valid JSON, no content)
\*   bad     data: <text that is not JSON>
\*   done    data: [DONE]
\*   blank   an empty line
\* and, when the transport cuts a line inside its payload, what one data
\* event sees of it:
\*   fraghead  "data: " and the first part of the payload
\*   fragtail  the rest of the payload
Delta(c) == [t |-> "delta", c |-> c]

Line(t) == [t |-> t, c |-> ""]

LineTokens == {Delta(c) : c \in Contents} \cup {Line("nodelta"), Line("bad"), Line("done"), Line("blank")}

SeqsUpTo(S, n) == UNION {[1..k -> S] : k \in 0..n}

\* calls of onChunk
ContentCall(c) == [k |-> "content", v |-> c]

DoneCall == [k |-> "done", v |-> ""]

ErrorCall(kind) == [k |-> "error", v |-> kind]

\* a data handler whose loop ends at the first line that fails to parse
RECURSIVE OpenAIOnData_StopOnBad(_)
OpenAIOnData_StopOnBad(lines) ==
  IF lines = <<>> THEN <<>>
  ELSE LET l == Head(lines) IN
    IF l.t = "blank" THEN OpenAIOnData_StopOnBad(Tail(lines))
    ELSE IF l.t = "done" THEN <<DoneCall>>
    ELSE IF l.t = "delta" THEN <<ContentCall(l.c)>> \o OpenAIOnData_StopOnBad(Tail(lines))
    ELSE IF l.t = "nodelta" THEN OpenAIOnData_StopOnBad(Tail(lines))
    ELSE <<>>

\* OpenAIClient: response.data.on('data'): the calls one chunk produces.
\* A line holding [DONE] signals completion and returns from the handler.
RECURSIVE OpenAIOnData(_)
OpenAIOnData(lines) ==
  IF lines = <<>> THEN <<>>
  ELSE LET l == Head(lines) IN
    IF l.t = "blank" THEN OpenAIOnData(Tail(lines))
    ELSE IF l.t = "done" THEN <<DoneCall>>
    ELSE IF l.t = "delta" THEN <<ContentCall(l.c)>> \o OpenAIOnData(Tail(lines))
    ELSE OpenAIOnData(Tail(lines))

\* MistralClient: response.data.on('data'): lines without "data:" are
\* skipped, [DONE] signals completion and the loop goes on.
RECURSIVE MistralOnData(_)
MistralOnData(lines) ==
  IF lines = <<>> THEN <<>>
  ELSE LET l == Head(lines) IN
    IF l.t = "blank" THEN MistralOnData(Tail(lines))
    ELSE IF l.t = "fragtail" THEN MistralOnData(Tail(lines))
    ELSE IF l.t = "done" THEN <<DoneCall>> \o MistralOnData(Tail(lines))
    ELSE IF l.t = "delta" THEN <<ContentCall(l.c)>> \o MistralOnData(Tail(lines))
    ELSE MistralOnData(Tail(lines))

onData(c, lines) == IF c = "mistral" THEN MistralOnData(lines) ELSE OpenAIOnData(lines)

\* response.data.on('end'): OpenAIClient signals completion, MistralClient
\* only logs.
onEnd(c) == IF c = "mistral" THEN <<>> ELSE <<DoneCall>>

\* --------------------------------------------------------- client state
VARIABLES
  client,    \* the provider client of the running invocation
  mode,      \* "buffered": generateResponse, "stream": generateStreamingResponse
  pc,        \* "idle", "call" (in the retry loop), "streaming", "done"
  retries,   \* let retries
  attempts,  \* HTTP posts made by this invocation
  lastErr,   \* the error caught in the current iteration of the loop
  delays,    \* the backoff delays waited, in order
  outcome,   \* how the call ended for its caller
  sink,      \* the calls of onChunk, in order
  sent,      \* the lines of the response stream the vendor has begun to send
  midLine,   \* the last line of `sent` was delivered in part only
  aligned    \* no data event so far ended inside a line

clientVars == <<client, mode, pc, retries, attempts, lastErr, delays, outcome, sink,
                sent, midLine, aligned>>

\* ------------------------------------------------------ inventory state
VARIABLES
  inventoryEnabled,  \* botConfig.inventoryEnabled
  catalog,           \* ProductInventory documents of the bot, in insertion order
  orders,            \* OrderRequest documents, in insertion order
  lastResponse       \* the response of the last chat request

invVars == <<inventoryEnabled, catalog, orders, lastResponse>>

\* ------------------------------------------------------- request state
VARIABLES
  turn,          \* the last conversational turn (webhook / session messages)
  botMessages,   \* contents of the persisted Message documents of role 'bot'
  selected,      \* the last call of AIClientManager.getClient and its result
  patchPc,       \* per in-flight PATCH /order/:id request: where it stands
  patchReq,      \* per in-flight PATCH /order/:id request: its order id
  patchProduct   \* per in-flight PATCH /order/:id request: the product it read

turnVars == <<turn, botMessages, selected>>

patchVars == <<patchPc, patchReq, patchProduct>>

\* ---------------------------------------------------------- wire state
VARIABLES
  inFlight,            \* per overlapping generateResponse invocation: its locals
  request,          \* the last request a route or caller had a provider client post
  sessionMessages,  \* the Message documents of the session, by timestamp
  foreign           \* productinventories documents of other configurations

wireVars == <<inFlight, request, sessionMessages, foreign>>

requestVars == <<turnVars, patchVars, wireVars>>

vars == <<clientVars, invVars, requestVars>>

NoOutcome == [status |-> "none", kind |-> "", thrown |-> FALSE]

ClientInit ==
  /\ client = "mistral"
  /\ mode = "buffered"
  /\ pc = "idle"
  /\ retries = 0
  /\ attempts = 0
  /\ lastErr = NoErr
  /\ delays = <<>>
  /\ outcome = NoOutcome
  /\ sink = <<>>
  /\ sent = <<>>
  /\ midLine = FALSE
  /\ aligned = TRUE

\* A caller invokes generateResponse or generateStreamingResponse.
Start(c, m) ==
  /\ pc \in {"idle", "done"}
  /\ client' = c
  /\ mode' = m
  /\ pc' = "call"
  /\ retries' = 0
  /\ attempts' = 0
  /\ lastErr' = NoErr
  /\ delays' = <<>>
  /\ outcome' = NoOutcome
  /\ sink' = <<>>
  /\ sent' = <<>>
  /\ midLine' = FALSE
  /\ aligned' = TRUE
  /\ UNCHANGED <<invVars, requestVars>>

\* The outer catch: the error `raised` reaches the caller.
Fail(raised) ==
  /\ pc' = "done"
  /\ IF mode = "stream" /\ client = "openai"
       THEN /\ sink' = Append(sink, ErrorCall(OpenAIStreamErrorKind(raised)))
            /\ outcome' = [status |-> "failed", kind |-> OpenAIStreamErrorKind(raised),
                           thrown |-> FALSE]
       ELSE /\ sink' = sink
            /\ outcome' = [status |-> "failed", kind |-> ThrownKind(raised), thrown |-> TRUE]

\* One iteration of the retry loop whose post succeeds: generateResponse
\* returns the reply, generateStreamingResponse registers its handlers.
AttemptOk ==
  /\ pc = "call"
  /\ retries < maxRetries
  /\ attempts' = attempts + 1
  /\ lastErr' = NoErr
  /\ outcome' = [status |-> "ok", kind |-> "", thrown |-> FALSE]
  /\ pc' = IF mode = "stream" THEN "streaming" ELSE "done"
  /\ UNCHANGED <<client, mode, retries, delays, sink, sent, midLine, aligned, invVars, requestVars>>

\* retries++ without counting
NextRetries_Stuck(r) == r

\* retries++
NextRetries(r) == r + 1

\* One iteration of the retry loop whose post fails with e: the catch block.
AttemptErr(e, jitter) ==
  /\ pc = "call"
  /\ retries < maxRetries
  /\ attempts' = attempts + 1
  /\ lastErr' = e
  /\ LET d == shouldRetryRequest(client, e) IN
       IF d = "throw"
         THEN Fail(PlainErr) /\ UNCHANGED <<retries, delays>> /\ jitter = 0
       ELSE IF d = "fail"
         THEN Fail(e) /\ UNCHANGED <<retries, delays>> /\ jitter = 0
       ELSE /\ retries' = NextRetries(retries)
            /\ IF NextRetries(retries) >= maxRetries
                 THEN Fail(e) /\ UNCHANGED delays /\ jitter = 0
                 ELSE /\ delays' = Append(delays, backoffDelay(client, NextRetries(retries), jitter))
                      /\ UNCHANGED <<pc, outcome, sink>>
  /\ UNCHANGED <<client, mode, sent, midLine, aligned, invVars, requestVars>>

\* The lines one data event holds: the rest of the line the event before
\* ended in, the whole lines ls, and, with `cut`, the head of one more line.
ChunkLines(ls, cut) ==
  (IF midLine THEN <<Line("fragtail")>> ELSE <<>>)
    \o ls \o (IF cut THEN <<Line("fraghead")>> ELSE <<>>)

\* A data event of the response stream: the whole lines ls arrive and, with
\* `cut`, the first part of the line h.
Data(ls, cut, h) ==
  /\ pc = "streaming"
  /\ midLine \/ ls # <<>> \/ cut
  /\ Len(sent) + Len(ls) + (IF cut THEN 1 ELSE 0) <= MaxLines
  /\ h.t # "blank"
  /\ sink' = sink \o onData(client, ChunkLines(ls, cut))
  /\ sent' = sent \o ls \o (IF cut THEN <<h>> ELSE <<>>)
  /\ midLine' = cut
  /\ aligned' = (aligned /\ ~cut)
  /\ UNCHANGED <<client, mode, pc, retries, attempts, lastErr, delays, outcome, invVars, requestVars>>

\* The end event of the response stream.
End ==
  /\ pc = "streaming"
  /\ ~midLine
  /\ sink' = sink \o onEnd(client)
  /\ pc' = "done"
  /\ UNCHANGED <<client, mode, retries, attempts, lastErr, delays, outcome, sent,
                 midLine, aligned, invVars, requestVars>>

ClientNext ==
  \/ \E c \in Clients, m \in Modes : Start(c, m)
  \/ AttemptOk
  \/ /\ pc = "call"
     /\ \E e \in Errors(mode), j \in Jitters : AttemptErr(e, j)
  \/ /\ pc = "streaming"
     /\ \E ls \in SeqsUpTo(LineTokens, MaxLines - Len(sent)) : Data(ls, FALSE, Line("done"))
  \/ /\ pc = "streaming"
     /\ Len(sent) < MaxLines
     /\ \E ls \in SeqsUpTo(LineTokens, MaxLines - Len(sent) - 1), h \in LineTokens :
          Data(ls, TRUE, h)
  \/ End

\* =================================================================
\* Inventory: the catalog and the order requests of one bot (botId).
\* =================================================================

\* Strings are sequences of characters.
Lower(ch) == IF ch = "A" THEN "a" ELSE IF ch = "B" THEN "b" ELSE ch

toLowerCase(str) == [i \in DOMAIN str |-> Lower(str[i])]

\* product names an admin enters, and product mentions in queries
Names == {<<"a">>, <<"A", "b">>}

Queries == Names \cup {<<"b">>, <<"c">>}

\* null / undefined / the empty string
NoName == <<>>

Skus == {"s1", "s2"}

\* requested quantities: up to more than any stock level
Quantities == 1..(MaxStock + 1)

\* fuzzy-search nearestIndexesFor, for one occurrence `start` of the first
\* character of query: each next character is taken at its first position
\* after the one before (item.indexOf(letter, index)).  The set holds the
\* one index list found, or nothing when a character is missing.
IndexesFrom(item, query, start) ==
  {f \in [1..Len(query) -> 1..Len(item)] :
     /\ f[1] = start
     /\ \A k \in 1..Len(query) : item[f[k]] = query[k]
     /\ \A k \in 2..Len(query) :
          /\ f[k] > f[k - 1]
          /\ \A j \in (f[k - 1] + 1)..(f[k] - 1) : item[j] # query[k]}

\* the spans (last index - first index) of the index lists found
Spans(item, query) ==
  {f[Len(query)] - f[1] : f \in UNION {IndexesFrom(item, query, i) : i \in 1..Len(item)}}

\* the first index of the index lists found
Firsts(item, query) ==
  {f[1] : f \in UNION {IndexesFrom(item, query, i) : i \in 1..Len(item)}}

Least(S) == CHOOSE x \in S : \A y \in S : x <= y

\* fuzzy-search isMatch with caseSensitive: false; 0 is "no match", a
\* smaller score ranks first.  Indexes here are 1-based, the library's 0-based.
FuzzyScore(name, query) ==
  LET item == toLowerCase(name)
      q == toLowerCase(query)
  IN IF q = <<>> \/ Spans(item, q) = {} THEN 0
     ELSE IF item = q THEN 1
     ELSE IF Len(q) > 1 THEN 2 + Least(Spans(item, q))
     ELSE 2 + (Least(Firsts(item, q)) - 1)

\* searcher.search(query) with sort: true, then searchResults[0]: the index
\* in `products` of the best match (the first of the lowest score), 0 if none.
BestMatch(products, query) ==
  LET scores == [i \in DOMAIN products |-> FuzzyScore(products[i].productName, query)]
      hits == {i \in DOMAIN products : scores[i] > 0}
  IN IF hits = {} THEN 0
     ELSE CHOOSE i \in hits :
            \A j \in hits : scores[i] < scores[j] \/ (scores[i] = scores[j] /\ i <= j)

\* ------------------------------------------------------- intent replies
\* The text the LLM returns for the intent-detection call.
\*   json = "object"    a JSON object {intent, productName, quantity}
\*   json = "garbage"   text that is not JSON
\*   json = "undefined" no text at all (the JavaScript value undefined)
\* productName NoName and quantity 0 stand for null.
Intents == {"inventory_check", "order_intent", "other"}

IntentJson(i, n, q) == [json |-> "object", intent |-> i, productName |-> n, quantity |-> q]

Garbage == [json |-> "garbage", intent |-> "", productName |-> NoName, quantity |-> 0]

Undefined == [json |-> "undefined", intent |-> "", productName |-> NoName, quantity |-> 0]

ReplyTexts ==
  {IntentJson(i, n, q) : i \in Intents, n \in Queries \cup {NoName}, q \in {0} \cup Quantities}
    \cup {Garbage}

\* What generateResponse resolves to: {reply, model, usage} (both clients).
AIResult(text) == [reply |-> text]

\* intentAnalysis.content: the property is read from the result object
ContentOf(res) == IF "content" \in DOMAIN res THEN res.content ELSE Undefined

\* JSON.parse(x) without the try / catch around it
ParseIntent_NoCatch(x) ==
  [intent |-> IF x.json = "object" THEN x.intent ELSE "raise",
   productName |-> x.productName, quantity |-> x.quantity]

\* try { JSON.parse(x) } catch { {intent:'other', productName:null, quantity:null} }
ParseIntent(x) ==
  IF x.json = "object"
    THEN [intent |-> x.intent, productName |-> x.productName, quantity |-> x.quantity]
    ELSE [intent |-> "other", productName |-> NoName, quantity |-> 0]

\* ---------------------------------------------------- inventory actions
NoResponse == [t |-> "none", hindi |-> FALSE, n |-> 0]

\* a reply template of /intent, its language, and the number it names
Reply(t, hindi, n) == [t |-> t, hindi |-> hindi, n |-> n]

InvInit ==
  /\ inventoryEnabled \in BOOLEAN
  /\ catalog = <<>>
  /\ orders = <<>>
  /\ lastResponse = NoResponse

\* An OrderRequest document.  `covered` records, for a status set to
\* confirmed, whether the matched product's stock covered the quantity
\* when the status was written.
Order(name, qty, status, covered) ==
  [productName |-> name, requestedQty |-> qty, status |-> status, covered |-> covered]

\* a schema without the validator of availableStock
StockValid_None(stock) == TRUE

\* ProductInventorySchema.availableStock: min: [0, 'Stock cannot be negative'],
\* run by create() and save()
StockValid(stock) == stock >= 0

\* POST /api/admin/inventory/add
AdminAdd(name, sku, stock) ==
  /\ \A i \in DOMAIN catalog : catalog[i].sku # sku
  /\ StockValid(stock)
  /\ inventoryEnabled' = TRUE
  /\ catalog' = Append(catalog, [productName |-> name, sku |-> sku, availableStock |-> stock])
  /\ UNCHANGED <<orders, lastResponse, clientVars, requestVars>>

\* PATCH /api/admin/inventory/update-stock
AdminUpdateStock(sku, stock) ==
  /\ \E i \in DOMAIN catalog :
       /\ catalog[i].sku = sku
       /\ StockValid(stock)
       /\ catalog' = [catalog EXCEPT ![i].availableStock = stock]
  /\ UNCHANGED <<inventoryEnabled, orders, lastResponse, clientVars, requestVars>>

\* POST /api/chat/inventory/order
ChatOrder(name, qty) ==
  /\ inventoryEnabled
  /\ Len(orders) < MaxOrders
  /\ LET m == BestMatch(catalog, name)
         stored == IF m # 0 THEN catalog[m].productName ELSE name
         enough == m # 0 /\ catalog[m].availableStock >= qty
     IN orders' = Append(orders, Order(stored, qty, IF enough THEN "confirmed" ELSE "pending",
                                       TRUE))
  /\ lastResponse' = Reply("order_recorded", FALSE, qty)
  /\ UNCHANGED <<inventoryEnabled, catalog, clientVars, requestVars>>

\* The branches of POST /intent after the intent is parsed: the reply and
\* the order created (<<>> when none).
IntentOutcome(intentData, hindi) ==
  IF intentData.intent = "inventory_check" /\ intentData.productName # NoName
    THEN IF catalog = <<>> THEN [reply |-> Reply("no_products", hindi, 0), created |-> <<>>]
         ELSE LET m == BestMatch(catalog, intentData.productName) IN
           IF m = 0 THEN [reply |-> Reply("not_found", hindi, 0), created |-> <<>>]
           ELSE IF catalog[m].availableStock > 0
             THEN [reply |-> Reply("available", hindi, catalog[m].availableStock),
                   created |-> <<>>]
             ELSE [reply |-> Reply("out_of_stock", hindi, 0), created |-> <<>>]
  ELSE IF intentData.intent = "order_intent" /\ intentData.productName # NoName
          /\ intentData.quantity # 0
    THEN IF catalog = <<>> THEN [reply |-> Reply("no_products", hindi, 0), created |-> <<>>]
         ELSE LET m == BestMatch(catalog, intentData.productName) IN
           IF m = 0 THEN [reply |-> Reply("not_found", hindi, 0), created |-> <<>>]
           ELSE IF catalog[m].availableStock >= intentData.quantity
             THEN [reply |-> Reply("order_confirmed", hindi, intentData.quantity),
                   created |-> <<Order(catalog[m].productName, intentData.quantity,
                                       "confirmed", TRUE)>>]
           ELSE IF catalog[m].availableStock > 0
             THEN [reply |-> Reply("only_n_available", hindi, catalog[m].availableStock),
                   created |-> <<>>]
             ELSE [reply |-> Reply("out_of_stock", hindi, 0), created |-> <<>>]
  ELSE [reply |-> Reply("help", hindi, 0), created |-> <<>>]

\* the intent /intent resolves from the provider's result
ResolvedIntent(text) == ParseIntent(ContentOf(AIResult(text)))

\* POST /intent, the provider call having returned `text`: the order it
\* records and the response it sends
IntentEffect(text, hindi) ==
  LET out == IntentOutcome(ResolvedIntent(text), hindi) IN
    /\ Len(orders) + Len(out.created) <= MaxOrders
    /\ orders' = orders \o out.created
    /\ lastResponse' = out.reply

\* POST /api/chat/inventory/intent, the provider call having returned `text`;
\* hindi: the message holds a character in U+0900..U+097F.
IntentTurn(text, hindi) ==
  /\ inventoryEnabled
  /\ IntentEffect(text, hindi)
  /\ UNCHANGED <<inventoryEnabled, catalog, clientVars, requestVars>>

\* POST /api/chat/inventory/intent, the provider call having failed: next(err)
IntentTurnFailed ==
  /\ inventoryEnabled
  /\ lastResponse' = Reply("error", FALSE, 0)
  /\ UNCHANGED <<inventoryEnabled, catalog, orders, clientVars, requestVars>>

\* PATCH /api/admin/inventory/order/:id
AdminOrderStatus(id, status) ==
  /\ id \in DOMAIN orders
  /\ LET o == orders[id]
         hits == {i \in DOMAIN catalog : catalog[i].productName = o.productName}
         p == IF hits = {} THEN 0 ELSE CHOOSE i \in hits : \A j \in hits : i <= j
         enough == p # 0 /\ catalog[p].availableStock >= o.requestedQty
     IN /\ orders' = [orders EXCEPT ![id].status = status,
                                    ![id].covered = IF status = "confirmed" THEN enough ELSE TRUE]
        /\ catalog' = IF status = "confirmed" /\ enough
                        THEN [catalog EXCEPT ![p].availableStock = @ - o.requestedQty]
                        ELSE catalog
  /\ UNCHANGED <<inventoryEnabled, lastResponse, clientVars, requestVars>>

InvNext ==
  \/ \E n \in Names, k \in Skus, st \in 0..MaxStock : AdminAdd(n, k, st)
  \/ \E k \in Skus, st \in 0..MaxStock : AdminUpdateStock(k, st)
  \/ \E n \in Queries, q \in Quantities : ChatOrder(n, q)
  \/ \E t \in ReplyTexts, h \in BOOLEAN : IntentTurn(t, h)
  \/ IntentTurnFailed
  \/ \E id \in 1..MaxOrders, st \in {"pending", "confirmed", "rejected"} : AdminOrderStatus(id, st)

\* =================================================================
\* AIClientManager.getClient and the conversational turns.
\* =================================================================

\* most bot messages persisted
MaxTurns == 1

\* this.defaultProvider
defaultProvider == "mistral"

\* values of config.ai.provider; "" is the empty string
ProviderNames == {"mistral", "openai", "OpenAI", "gemini", "constructor", "__proto__", ""}

\* The config argument of getClient:
\*   undefined  no argument (the default parameter {} applies)
\*   null       null
\*   noai       an object without `ai`
\*   named      an object whose ai.provider is `provider`
Config(shape, provider) == [shape |-> shape, provider |-> provider]

Configs ==
  {Config(sh, "") : sh \in {"undefined", "null", "noai"}}
    \cup {Config("named", n) : n \in ProviderNames}

\* the Config documents the schema admits: ai.provider is 'mistral' or 'openai'
StoredConfigs == {Config("named", "mistral"), Config("named", "openai")}

\* String.prototype.toLowerCase on the provider names
LowerName(n) == IF n = "OpenAI" THEN "openai" ELSE n

\* property names every object inherits from Object.prototype (the ones
\* written in lower case)
InheritedKeys == {"constructor", "__proto__"}

\* this.clients[key]: an own property (the registered client), an inherited
\* property of the plain object, or undefined
ClientsLookup(key) ==
  IF key \in Clients THEN key
  ELSE IF key \in InheritedKeys THEN "Object." \o key
  ELSE "undefined"

getClient(config) ==
  IF config.shape # "named" \/ config.provider = "" THEN ClientsLookup(defaultProvider)
  ELSE LET provider == LowerName(config.provider) IN
    IF ClientsLookup(provider) = "undefined" THEN ClientsLookup(defaultProvider)
    ELSE ClientsLookup(provider)

NoSelection == [called |-> FALSE, config |-> Config("undefined", ""), client |-> "undefined"]

\* a caller invokes aiClientManager.getClient(config)
GetClientCall(config) ==
  /\ selected' = [called |-> TRUE, config |-> config, client |-> getClient(config)]
  /\ UNCHANGED <<turn, botMessages, patchVars, wireVars, invVars, clientVars>>

\* ------------------------------------------------------------ the turn
\* Texts are records of the shape of Reply: a template of /intent, a reply
\* of the provider, or the JavaScript value undefined.
UndefinedText == Reply("undefined", FALSE, 0)

\* reply texts of the provider (non-empty)
ProviderReplies == {"llm1", "llm2"}

\* what aiClientManager.generateResponse does: resolves to {reply, ...} or throws
ProviderOk(r) == [ok |-> TRUE, reply |-> Reply(r, FALSE, 0)]

ProviderFailed == [ok |-> FALSE, reply |-> UndefinedText]

ProviderResults == {ProviderOk(r) : r \in ProviderReplies} \cup {ProviderFailed}

\* the intent replies of the LLM tried in a turn
TurnTexts ==
  {IntentJson(i, n, q) : i \in Intents, n \in {<<"a">>, NoName}, q \in {0, 1}} \cup {Garbage}

\* res.status(200).json({success: true, data: {intent: intentData, response}})
IntentBody(text, hindi) ==
  [success |-> TRUE,
   data |-> [intent |-> ResolvedIntent(text).intent,
             response |-> IntentOutcome(ResolvedIntent(text), hindi).reply]]

\* an error handler that answers success: true
ErrorBody_Success == [success |-> TRUE, message |-> Reply("Internal Server Error", FALSE, 0)]

\* the error handler: res.status(500).json({success: false, message: ...})
ErrorBody == [success |-> FALSE, message |-> Reply("Internal Server Error", FALSE, 0)]

\* inventoryResult.intent
FieldIntent(body) == IF "intent" \in DOMAIN body THEN body.intent ELSE "undefined"

\* inventoryResult.message
FieldMessage(body) == IF "message" \in DOMAIN body THEN body.message ELSE UndefinedText

\* MessageSchema.content: required
MessageValid(content) == content # UndefinedText

\* no intent resolved in the turn
NoIntent == [intent |-> "none", productName |-> NoName, quantity |-> 0]

\* The record of a turn: its route, how its intent sub-call ended (step), the
\* LLM's text for the intent call and the intent /intent resolved from it,
\* the provider calls made for the reply, and how the turn ended.
NoTurn ==
  [route |-> "none", step |-> "none", text |-> Undefined, intentData |-> NoIntent,
   calls |-> <<>>, status |-> "none", reply |-> UndefinedText, persisted |-> FALSE]

TurnInit ==
  /\ turn = NoTurn
  /\ botMessages = <<>>
  /\ selected = NoSelection

\* one call of aiClientManager.generateResponse(sessionId, history, config)
ProviderCall(cfg, p) == [client |-> getClient(cfg), ok |-> p.ok, reply |-> p.reply]

\* The end of a turn whose provider calls were `calls` and whose aiResponse
\* is `result` (not ok: the last call threw).  Message.create persists the
\* bot message and the reply is returned, or the error goes to next(error).
Finish(tr, calls, result) ==
  IF result.ok /\ MessageValid(result.reply)
    THEN /\ turn' = [tr EXCEPT !.calls = calls, !.status = "replied", !.reply = result.reply,
                               !.persisted = TRUE]
         /\ botMessages' = Append(botMessages, result.reply)
    ELSE /\ turn' = [tr EXCEPT !.calls = calls, !.status = "error"]
         /\ botMessages' = botMessages

\* the record of a turn that begins
BeginTurn(route, step, text) ==
  [NoTurn EXCEPT !.route = route, !.step = step, !.text = text,
                 !.intentData = IF step = "ok" THEN ResolvedIntent(text) ELSE NoIntent]

\* POST /api/webhook, the lines after the intent sub-call answered `body`:
\* the inventory reply, or the provider call of the else branch and, when
\* that throws, the provider call of the catch block.
AfterIntentBody(cfg, tr, body) ==
  IF body.success /\ FieldIntent(body) # "other"
    THEN Finish(tr, <<>>, [ok |-> TRUE, reply |-> FieldMessage(body)])
    ELSE \E p1 \in ProviderResults :
           IF p1.ok
             THEN Finish(tr, <<ProviderCall(cfg, p1)>>, p1)
             ELSE \E p2 \in ProviderResults :
                    Finish(tr, <<ProviderCall(cfg, p1), ProviderCall(cfg, p2)>>, p2)

\* POST /api/webhook for a bot of configuration cfg.  step is how the
\* intent sub-call ends:
\*   off          inventory is not enabled: no sub-call
\*   ok           /intent answers 200
\*   failed       the provider call of /intent throws: /intent answers 500
\*   unreachable  fetch rejects, or the answer is not JSON
WebhookTurn(cfg, step) ==
  /\ Len(botMessages) < MaxTurns
  /\ step = "off" <=> ~inventoryEnabled
  /\ IF step = "off" \/ step = "unreachable"
       THEN /\ UNCHANGED <<orders, lastResponse>>
            /\ \E p1 \in ProviderResults :
                 Finish(BeginTurn("webhook", step, Undefined), <<ProviderCall(cfg, p1)>>, p1)
     ELSE IF step = "failed"
       THEN /\ lastResponse' = Reply("error", FALSE, 0)
            /\ orders' = orders
            /\ AfterIntentBody(cfg, BeginTurn("webhook", step, Undefined), ErrorBody)
     ELSE \E text \in TurnTexts, hindi \in BOOLEAN :
            /\ IntentEffect(text, hindi)
            /\ AfterIntentBody(cfg, BeginTurn("webhook", step, text), IntentBody(text, hindi))
  /\ UNCHANGED <<inventoryEnabled, catalog, selected, patchVars, wireVars, clientVars>>

\* POST /api/sessions/:sessionId/messages
SessionTurn(cfg) ==
  /\ Len(botMessages) < MaxTurns
  /\ \E p1 \in ProviderResults :
       Finish(BeginTurn("session", "off", Undefined), <<ProviderCall(cfg, p1)>>, p1)
  /\ UNCHANGED <<selected, patchVars, wireVars, invVars, clientVars>>

\* DELETE /api/sessions/:sessionId/messages
ClearMessages ==
  /\ botMessages # <<>> \/ sessionMessages # <<>>
  /\ botMessages' = <<>>
  /\ sessionMessages' = <<>>
  /\ UNCHANGED <<turn, selected, patchVars, inFlight, request, foreign, invVars, clientVars>>

TurnNext ==
  \/ \E n \in Names, k \in Skus, st \in 0..MaxStock : AdminAdd(n, k, st)
  \/ \E c \in StoredConfigs, step \in {"off", "ok", "failed", "unreachable"} : WebhookTurn(c, step)
  \/ \E c \in StoredConfigs : SessionTurn(c)
  \/ ClearMessages

RouterNext ==
  \/ \E c \in Configs : GetClientCall(c)
  \/ \E c \in StoredConfigs : SessionTurn(c)
  \/ ClearMessages

\* =================================================================
\* Concurrent admin requests on the catalog.
\* =================================================================

\* the PATCH /order/:id requests in flight at once
Workers == {"w1", "w2"}

NoProduct == [idx |-> 0, stock |-> 0]

PatchInit ==
  /\ patchPc = [w \in Workers |-> "idle"]
  /\ patchReq = [w \in Workers |-> 0]
  /\ patchProduct = [w \in Workers |-> NoProduct]

\* PATCH /order/:id up to `await orderRequest.save()`
PatchSave(w, id, status) ==
  /\ patchPc[w] = "idle"
  /\ id \in DOMAIN orders
  /\ LET o == orders[id]
         hits == {i \in DOMAIN catalog : catalog[i].productName = o.productName}
         enough == \E i \in hits : catalog[i].availableStock >= o.requestedQty
     IN orders' = [orders EXCEPT ![id].status = status,
                                 ![id].covered = IF status = "confirmed" THEN enough ELSE TRUE]
  /\ patchPc' = [patchPc EXCEPT ![w] = IF status = "confirmed" THEN "saved" ELSE "idle"]
  /\ patchReq' = [patchReq EXCEPT ![w] = IF status = "confirmed" THEN id ELSE 0]
  /\ UNCHANGED <<inventoryEnabled, catalog, lastResponse, patchProduct, turnVars, wireVars, clientVars>>

\* PATCH /order/:id: `await ProductInventory.findOne({botId, productName})`
PatchFind(w) ==
  /\ patchPc[w] = "saved"
  /\ LET hits == {i \in DOMAIN catalog : catalog[i].productName = orders[patchReq[w]].productName}
         p == IF hits = {} THEN 0 ELSE CHOOSE i \in hits : \A j \in hits : i <= j
     IN patchProduct' = [patchProduct EXCEPT
                           ![w] = IF p = 0 THEN NoProduct
                                  ELSE [idx |-> p, stock |-> catalog[p].availableStock]]
  /\ patchPc' = [patchPc EXCEPT ![w] = "found"]
  /\ UNCHANGED <<invVars, patchReq, turnVars, wireVars, clientVars>>

\* PATCH /order/:id: the stock test on the document read, the decrement of
\* that document and `await product.save()`
PatchDecrement(w) ==
  /\ patchPc[w] = "found"
  /\ LET doc == patchProduct[w]
         qty == orders[patchReq[w]].requestedQty
     IN catalog' = IF doc.idx # 0 /\ doc.stock >= qty /\ StockValid(doc.stock - qty)
                     THEN [catalog EXCEPT ![doc.idx].availableStock = doc.stock - qty]
                     ELSE catalog
  /\ patchPc' = [patchPc EXCEPT ![w] = "idle"]
  /\ patchReq' = [patchReq EXCEPT ![w] = 0]
  /\ patchProduct' = [patchProduct EXCEPT ![w] = NoProduct]
  /\ UNCHANGED <<inventoryEnabled, orders, lastResponse, turnVars, wireVars, clientVars>>

\* POST /api/admin/inventory/upload: one row of the CSV file, its
\* availableStock read by parseInt
AdminUploadRow(name, sku, stock) ==
  /\ StockValid(stock)
  /\ inventoryEnabled' = TRUE
  /\ IF \E i \in DOMAIN catalog : catalog[i].sku = sku
       THEN LET i == CHOOSE j \in DOMAIN catalog : catalog[j].sku = sku
            IN catalog' = [catalog EXCEPT ![i].productName = name, ![i].availableStock = stock]
       ELSE catalog' = Append(catalog, [productName |-> name, sku |-> sku,
                                        availableStock |-> stock])
  /\ UNCHANGED <<orders, lastResponse, clientVars, requestVars>>

\* stock levels an admin sends: negative ones too
StockInputs == (0 - 1)..MaxStock

\* the product the concurrent requests are about
ConcNames == {<<"a">>}

ConcNext ==
  \/ \E n \in ConcNames, k \in Skus, st \in StockInputs : AdminAdd(n, k, st)
  \/ \E k \in Skus, st \in StockInputs : AdminUpdateStock(k, st)
  \/ \E n \in ConcNames, k \in Skus, st \in StockInputs : AdminUploadRow(n, k, st)
  \/ \E n \in ConcNames, q \in Quantities : ChatOrder(n, q)
  \/ \E w \in Workers, id \in 1..MaxOrders, st \in {"pending", "confirmed", "rejected"} :
       PatchSave(w, id, st)
  \/ \E w \in Workers : PatchFind(w)
  \/ \E w \in Workers : PatchDecrement(w)

\* ------------------------------------------------------- specifications
\* =================================================================
\* Two generateResponse invocations in flight on one singleton client.
\* =================================================================

Invocations == {"i1", "i2"}

\* the errors the posts of the overlapping invocations end with
PairErrors == {HttpErr(429, "none"), HttpErr(401, "none"), NetErr("ETIMEDOUT", FALSE)}

NoCall ==
  [client |-> "mistral", pc |-> "idle", retries |-> 0, attempts |-> 0, lastErr |-> NoErr,
   delays |-> <<>>, outcome |-> NoOutcome]

\* a retry counter kept in a field of the singleton client
retriesOf_Shared(cs, i) ==
  LET other == CHOOSE j \in Invocations : j # i IN cs[i].retries + cs[other].retries

\* `let retries = 0`: the retry counter the invocation i reads, a local of
\* its own activation of generateResponse
retriesOf(cs, i) == cs[i].retries

\* A caller invokes generateResponse on the client the other invocation uses.
Invoke(i, c) ==
  /\ inFlight[i].pc = "idle"
  /\ \A j \in Invocations : inFlight[j].pc = "idle" \/ inFlight[j].client = c
  /\ inFlight' = [inFlight EXCEPT ![i] = [NoCall EXCEPT !.client = c, !.pc = "call"]]
  /\ UNCHANGED <<request, sessionMessages, foreign, turnVars, patchVars, invVars, clientVars>>

\* The invocation returns or throws, and its caller is done with it.
Return(i) ==
  /\ inFlight[i].pc = "done"
  /\ inFlight' = [inFlight EXCEPT ![i] = NoCall]
  /\ UNCHANGED <<request, sessionMessages, foreign, turnVars, patchVars, invVars, clientVars>>

\* One iteration of the retry loop of invocation i whose post succeeds.
InvocationOk(i) ==
  /\ inFlight[i].pc = "call"
  /\ retriesOf(inFlight, i) < maxRetries
  /\ inFlight' = [inFlight EXCEPT ![i].attempts = @ + 1,
                            ![i].lastErr = NoErr,
                            ![i].outcome = [status |-> "ok", kind |-> "", thrown |-> FALSE],
                            ![i].pc = "done"]
  /\ UNCHANGED <<request, sessionMessages, foreign, turnVars, patchVars, invVars, clientVars>>

\* the failure generateResponse throws to its caller
Thrown(raised) == [status |-> "failed", kind |-> ThrownKind(raised), thrown |-> TRUE]

\* One iteration of the retry loop of invocation i whose post fails with e.
InvocationErr(i, e, jitter) ==
  /\ inFlight[i].pc = "call"
  /\ retriesOf(inFlight, i) < maxRetries
  /\ LET c == inFlight[i].client
         d == shouldRetryRequest(c, e)
         r == NextRetries(retriesOf(inFlight, i))
     IN IF d = "throw"
          THEN /\ jitter = 0
               /\ inFlight' = [inFlight EXCEPT ![i].attempts = @ + 1, ![i].lastErr = e,
                                         ![i].outcome = Thrown(PlainErr), ![i].pc = "done"]
        ELSE IF d = "fail"
          THEN /\ jitter = 0
               /\ inFlight' = [inFlight EXCEPT ![i].attempts = @ + 1, ![i].lastErr = e,
                                         ![i].outcome = Thrown(e), ![i].pc = "done"]
        ELSE IF r >= maxRetries
          THEN /\ jitter = 0
               /\ inFlight' = [inFlight EXCEPT ![i].attempts = @ + 1, ![i].lastErr = e,
                                         ![i].retries = r,
                                         ![i].outcome = Thrown(e), ![i].pc = "done"]
        ELSE inFlight' = [inFlight EXCEPT ![i].attempts = @ + 1, ![i].lastErr = e,
                                    ![i].retries = r,
                                    ![i].delays = Append(@, backoffDelay(c, r, jitter))]
  /\ UNCHANGED <<request, sessionMessages, foreign, turnVars, patchVars, invVars, clientVars>>

PairNext ==
  \/ \E i \in Invocations, c \in Clients : Invoke(i, c)
  \/ \E i \in Invocations : Return(i)
  \/ \E i \in Invocations : InvocationOk(i)
  \/ \E i \in Invocations, e \in PairErrors, j \in Jitters : InvocationErr(i, e, j)

\* =================================================================
\* The requests the provider clients post, and the callers that build them.
\* =================================================================

\* most content deltas of one streamed response
MaxDeltas == 2

\* most characters of an utterance
MaxUtterance == 2

\* most Message documents of the session
MaxStored == 11

\* most productinventories documents of other configurations
MaxForeign == 1

\* .limit(10) of the history queries
HistoryLimit == 10

\* `|| 0.7`, in tenths
DefaultTemperature == 7

\* `|| 1000`
DefaultMaxTokens == 1000

\* the text of the system prompt a caller or a client composes
SystemPrompt == 0

\* an option that is undefined
Unset == 0 - 1

\* A message: its role, its content (a number standing for its text) and
\* the inventory records a route appended to the content as a system note.
Msg(role, content) == [role |-> role, content |-> content, note |-> {}]

\* msg.role === 'bot' ? 'assistant' : 'user'
VendorRole(role) == IF role = "bot" THEN "assistant" ELSE "user"

\* messages.map(msg => ({role: ..., content: msg.content}))
MapMessages(ms) == [k \in 1..Len(ms) |-> [ms[k] EXCEPT !.role = VendorRole(@)]]

\* the messages of the post of generateResponse (both clients)
BufferedMessages(ms) == <<Msg("system", SystemPrompt)>> \o MapMessages(ms)

\* the messages of the post of generateStreamingResponse (both clients)
StreamMessages(ms) == MapMessages(ms)

\* options.model || '<default>'
DefaultModel(c) == IF c = "mistral" THEN "mistral-small" ELSE "gpt-3.5-turbo"

\* x || d on a number: undefined and 0 are falsy
OrElse(x, d) == IF x = Unset \/ x = 0 THEN d ELSE x

\* the AI settings of a config, or the options of a client call; model ""
\* stands for undefined
Settings(model, temperature, max_tokens) ==
  [model |-> model, temperature |-> temperature, max_tokens |-> max_tokens]

\* the settings read off a value that has none of the three properties
NoSettings == Settings("", Unset, Unset)

\* the body of this.client.post('/chat/completions', ...)
PostBody(c, m, ms, options) ==
  [model |-> IF options.model = "" THEN DefaultModel(c) ELSE options.model,
   messages |-> IF m = "stream" THEN StreamMessages(ms) ELSE BufferedMessages(ms),
   temperature |-> OrElse(options.temperature, DefaultTemperature),
   max_tokens |-> OrElse(options.max_tokens, DefaultMaxTokens)]

\* The parameters of <client>.generateStreamingResponse as bound by the
\* manager's call (sessionId, messages, options, onChunk): OpenAIClient
\* declares (sessionId, messages, options, onChunk), MistralClient declares
\* (sessionId, messages, onChunk, options), so there `onChunk` names the
\* options object and `options` names the caller's function.
StreamParameters(c, options) ==
  IF c = "openai" THEN [options |-> options, onChunk |-> "function"]
  ELSE [options |-> NoSettings, onChunk |-> "object"]

\* A request a client posts: who had it made, the `messages` argument of
\* the client call (history), the caller's settings, the post body, what
\* the client's onChunk names, the content deltas of the response and the
\* calls the caller's callback received, whether the [DONE] line arrived;
\* for /intent the code points of the utterance; for a turn the content of
\* the message just received and the inventory context composed.
Request(route, c, m, ms, settings, options, onChunk) ==
  [route |-> route, client |-> c, mode |-> m, history |-> ms, settings |-> settings,
   body |-> PostBody(c, m, ms, options), onChunk |-> onChunk,
   deltas |-> <<>>, received |-> <<>>, ended |-> FALSE,
   utterance |-> <<>>, turnMessage |-> 0, context |-> {}]

NoRequest == Request("none", defaultProvider, "buffered", <<>>, NoSettings, NoSettings, "none")

\* config.ai of the configs the callers pass
AiSettings == {Settings("mistral-medium", t, 50) : t \in {0, 2}}

\* histories the callers pass
Histories ==
  {<<Msg("user", 1)>>, <<Msg("user", 1), Msg("bot", 2), Msg("user", 3)>>}

\* AIClientManager.generateResponse(sessionId, messages, config)
ManagerGenerate(provider, settings, ms) ==
  /\ request' = Request("generate", getClient(Config("named", provider)), "buffered", ms,
                        settings, settings, "none")
  /\ UNCHANGED <<inFlight, sessionMessages, foreign, turnVars, patchVars, invVars, clientVars>>

\* AIClientManager.generateStreamingResponse(sessionId, messages, config, onChunk)
ManagerStream(provider, settings, ms) ==
  /\ LET c == getClient(Config("named", provider))
         bound == StreamParameters(c, settings)
     IN request' = Request("stream", c, "stream", ms, settings, bound.options, bound.onChunk)
  /\ UNCHANGED <<inFlight, sessionMessages, foreign, turnVars, patchVars, invVars, clientVars>>

\* A data event with one content-delta line: onChunk is called inside the
\* try around JSON.parse, so calling a value that is no function is caught
\* and logged.
StreamDelta(t) ==
  /\ request.route = "stream"
  /\ ~request.ended
  /\ Len(request.deltas) < MaxDeltas
  /\ request' = [request EXCEPT
       !.deltas = Append(@, t),
       !.received = IF request.onChunk = "function" THEN Append(@, ContentCall(t)) ELSE @]
  /\ UNCHANGED <<inFlight, sessionMessages, foreign, turnVars, patchVars, invVars, clientVars>>

\* A data event with the [DONE] line.
StreamDone ==
  /\ request.route = "stream"
  /\ ~request.ended
  /\ request' = [request EXCEPT
       !.ended = TRUE,
       !.received = IF request.onChunk = "function" THEN Append(@, DoneCall) ELSE @]
  /\ UNCHANGED <<inFlight, sessionMessages, foreign, turnVars, patchVars, invVars, clientVars>>

\* code points of the characters of the utterances: a Latin letter and the
\* code points at and next to the ends of the Devanagari block
CodePoints == {97, 2303, 2304, 2431, 2432}

Utterances ==
  UNION {[1..n -> CodePoints] : n \in 1..MaxUtterance}

\* a test of the first character only
containsHindi_FirstChar(message) == message[1] >= 2304 /\ message[1] <= 2431

\* /[\u0900-\u097F]/.test(message)
containsHindi(message) ==
  \E i \in DOMAIN message : message[i] >= 2304 /\ message[i] <= 2431

\* POST /api/chat/inventory/intent with body.message = message, the
\* provider call having returned `text`.
IntentRequest(message, text) ==
  /\ inventoryEnabled
  /\ IntentEffect(text, containsHindi(message))
  /\ request' = [Request("intent", getClient(Config("noai", "")), "buffered",
                         <<Msg("system", SystemPrompt), Msg("user", 1)>>,
                         NoSettings, NoSettings, "none")
                   EXCEPT !.utterance = message]
  /\ UNCHANGED <<inventoryEnabled, catalog, inFlight, sessionMessages, foreign,
                 turnVars, patchVars, clientVars>>

WireNext ==
  \/ \E n \in ConcNames, st \in 1..MaxStock : AdminAdd(n, "s1", st)
  \/ \E c \in Clients, a \in AiSettings, h \in Histories : ManagerGenerate(c, a, h)
  \/ \E c \in Clients, a \in AiSettings, h \in Histories : ManagerStream(c, a, h)
  \/ \E t \in Contents : StreamDelta(t)
  \/ StreamDone
  \/ \E m \in Utterances, t \in {IntentJson("inventory_check", <<"a">>, 0), Garbage} :
       IntentRequest(m, t)

\* =================================================================
\* The history and the inventory context of the conversational turns.
\* =================================================================

TurnRoutes == {"session", "public", "webhook"}

\* global.InventoryProduct.find({}).select('productName sku availableStock unit'):
\* the documents of every configuration
InventoryProducts ==
  {catalog[i] : i \in DOMAIN catalog} \cup {foreign[i] : i \in DOMAIN foreign}

\* Message.find({sessionId}).sort({timestamp: 1}).limit(10)
LoadHistory(stored) == SubSeq(stored, 1, Min(HistoryLimit, Len(stored)))

\* history.map(...): the inventory context is appended to the last element
\* of the history when that element is a user message
WithContext(history, context) ==
  [k \in 1..Len(history) |->
     IF history[k].role = "user" /\ k = Len(history) /\ context # {}
       THEN [history[k] EXCEPT !.note = context]
       ELSE history[k]]

\* POST /api/sessions/:sessionId/messages, POST /api/sessions/public/:sessionId/messages
\* and POST /api/webhook (its provider call with inventory not enabled):
\* the user message is saved, the history loaded and sent, and, with
\* `replied`, the provider's reply saved.
HistoryTurn(route, replied) ==
  /\ Len(sessionMessages) + (IF replied THEN 2 ELSE 1) <= MaxStored
  /\ route = "webhook" => ~inventoryEnabled
  /\ LET n == Len(sessionMessages) + 1
         saved == Append(sessionMessages, Msg("user", n))
         history == LoadHistory(saved)
         context == IF route = "webhook" THEN {} ELSE InventoryProducts
         aiMessages == IF route = "webhook" THEN history ELSE WithContext(history, context)
     IN /\ request' = [Request(route, defaultProvider, "buffered", aiMessages,
                               NoSettings, NoSettings, "none")
                         EXCEPT !.turnMessage = n, !.context = context]
        /\ sessionMessages' = IF replied THEN Append(saved, Msg("bot", n + 1)) ELSE saved
  /\ UNCHANGED <<inFlight, foreign, turnVars, patchVars, invVars, clientVars>>

ForeignNames == {<<"z">>}

\* POST /api/admin/inventory/add with the botId of another configuration
AdminAddForeign(name, sku, stock) ==
  /\ Len(foreign) < MaxForeign
  /\ \A i \in DOMAIN foreign : foreign[i].sku # sku
  /\ StockValid(stock)
  /\ foreign' = Append(foreign, [productName |-> name, sku |-> sku, availableStock |-> stock])
  /\ UNCHANGED <<inFlight, request, sessionMessages, turnVars, patchVars, invVars, clientVars>>

HistoryNext ==
  \/ \E n \in ConcNames, st \in 1..MaxStock : AdminAdd(n, "s1", st)
  \/ \E n \in ForeignNames, st \in 1..MaxStock : AdminAddForeign(n, "s1", st)
  \/ \E r \in TurnRoutes, replied \in BOOLEAN : HistoryTurn(r, replied)
  \/ ClearMessages

WireInit ==
  /\ inFlight = [i \in Invocations |-> NoCall]
  /\ request = NoRequest
  /\ sessionMessages = <<>>
  /\ foreign = <<>>

Init == ClientInit /\ InvInit /\ TurnInit /\ PatchInit /\ WireInit

\* the provider clients
Spec == Init /\ [][ClientNext]_vars

\* the inventory routes
InvSpec == Init /\ [][InvNext]_vars

\* the conversational turns
TurnSpec == Init /\ [][TurnNext]_vars

\* provider selection and the session turns that use it
RouterSpec == Init /\ [][RouterNext]_vars

\* the admin requests, interleaved at their awaits
ConcSpec == Init /\ [][ConcNext]_vars

\* the requests the callers have the provider clients post
WireSpec == Init /\ [][WireNext]_vars

\* the turns of one session and the catalogs of the configurations
HistorySpec == Init /\ [][HistoryNext]_vars

\* two invocations of generateResponse interleaved at their awaits
PairSpec == Init /\ [][PairNext]_vars

\* the invocations of the provider clients up to the end of the retry loop
RetryNext ==
  \/ \E c \in Clients, m \in Modes : Start(c, m)
  \/ AttemptOk
  \/ /\ pc = "call"
     /\ \E e \in Errors(mode), j \in Jitters : AttemptErr(e, j)
  \/ End

\* the retry loops, each HTTP attempt returning
LiveSpec ==
  /\ Init
  /\ [][RetryNext]_vars
  /\ WF_vars(AttemptOk \/ (\E e \in Errors(mode), j \in Jitters : AttemptErr(e, j)))

\* =================================================================
\* Properties
\* =================================================================

\* error classes of the provider clients' contract
IsAuthError(e) == e.kind = "http" /\ e.status = 401

IsBadRequest(e) == e.kind = "http" /\ e.status = 400

IsModelNotFound(e) ==
  e.kind = "http" /\ e.status = 404 /\ e.body \in {"errstr_mnf", "errobj_model"}

\* a response body that holds no `error` field
PlainBody(e) == e.body \in {"none", "noerror", "stream"}

IsRateLimit(e) == e.kind = "http" /\ e.status = 429 /\ PlainBody(e)

IsServerError(e) == e.kind = "http" /\ e.status >= 500 /\ PlainBody(e)

\* the network errors the contract names
IsNetworkError(e) == e.kind = "net" /\ e.code \in {"ECONNRESET", "ETIMEDOUT"}

Failed == pc = "done" /\ outcome.status = "failed"

\* C1: when the first HTTP attempt fails with 401, 400 or a 404 with a
\* model-not-found body, the invocation ends in that step as a failure,
\* having made one attempt and waited no backoff delay; and an invocation
\* that has ended makes no further attempt.
C1_FatalErrorOneAttempt ==
  [][/\ (pc = "call" /\ attempts = 0 /\ attempts' = 1
           /\ (IsAuthError(lastErr') \/ IsBadRequest(lastErr') \/ IsModelNotFound(lastErr')))
         => (pc' = "done" /\ outcome'.status = "failed" /\ delays' = <<>>)
     /\ pc = "done" => (attempts' = attempts \/ (pc' = "call" /\ attempts' = 0))]_vars

\* C1 witness: an invocation that failed on a 400 after one attempt
C1_Witness ==
  /\ Failed
  /\ IsBadRequest(lastErr)
  /\ attempts = 1
  /\ delays = <<>>

\* C2: an attempt that fails with 429, a status >= 500 or a network error
\* is retried, and at most 3 attempts are made: a call whose last error is
\* one of these has failed only after 3 attempts.
C2_TransientErrorsRetried ==
  /\ attempts <= maxRetries
  /\ (Failed /\ (IsRateLimit(lastErr) \/ IsServerError(lastErr) \/ IsNetworkError(lastErr)))
       => attempts = maxRetries

\* C3: a failed generateResponse surfaces the kind of its last error: 401
\* Authentication, 429 RateLimit, >= 500 ServerError, a network error
\* NoResponse, and 400 a kind that is none of these four.
C3_FailureKindByLastError ==
  (Failed /\ mode = "buffered") =>
    /\ IsAuthError(lastErr) => outcome.kind = "Authentication"
    /\ IsRateLimit(lastErr) => outcome.kind = "RateLimit"
    /\ IsServerError(lastErr) => outcome.kind = "ServerError"
    /\ IsNetworkError(lastErr) => outcome.kind = "NoResponse"
    /\ IsBadRequest(lastErr) =>
         outcome.kind \notin {"Authentication", "RateLimit", "ServerError", "NoResponse"}

\* the stream is n >= 1 content-delta lines and then a [DONE] line
DeltasThenDone(ls) ==
  /\ Len(ls) >= 2
  /\ ls[Len(ls)].t = "done"
  /\ \A i \in 1..(Len(ls) - 1) : ls[i].t = "delta"

\* the calls C4 expects for such a stream
DeltaCalls(ls) ==
  [i \in 1..Len(ls) |-> IF i < Len(ls) THEN ContentCall(ls[i].c) ELSE DoneCall]

\* C4: for a stream of n content-delta lines, a [DONE] line and the end of
\* the stream (every data event ending at a line end), onChunk is invoked n
\* times with the contents in order and then once with the completion signal.
C4_DeltasThenOneDone ==
  (pc = "done" /\ mode = "stream" /\ outcome.status = "ok" /\ aligned /\ DeltasThenDone(sent))
    => sink = DeltaCalls(sent)

\* the terminators among the calls of onChunk
Terminators(calls) == {i \in DOMAIN calls : calls[i].k \in {"done", "error"}}

\* C5: during one generateStreamingResponse invocation (the vendor sending
\* at most one [DONE] line) the sink receives at most one terminator.
C5_AtMostOneTerminator ==
  (mode = "stream" /\ Cardinality({i \in DOMAIN sent : sent[i].t = "done"}) <= 1)
    => Cardinality(Terminators(sink)) <= 1

\* C6: a failed streaming call reports the failure through onChunk with an
\* {error} payload and does not throw.
C6_StreamErrorsInline ==
  (Failed /\ mode = "stream") =>
    /\ ~outcome.thrown
    /\ sink # <<>>
    /\ sink[Len(sink)].k = "error"

\* the LLM replied a well-formed JSON object with this intent and a product
\* name that matches a catalog item
ResolvesTo(text, intent) ==
  /\ text.json = "object"
  /\ text.intent = intent
  /\ text.productName # NoName
  /\ BestMatch(catalog, text.productName) # 0

MatchedStock(text) == catalog[BestMatch(catalog, text.productName)].availableStock

\* C7: a well-formed stock-check intent whose product matches an item is
\* answered with the "available" template naming the stock when stock > 0,
\* and with "out of stock" when it is 0.
C7_StockCheckAnswered ==
  [][\A text \in ReplyTexts, hindi \in BOOLEAN :
       (IntentTurn(text, hindi) /\ ResolvesTo(text, "inventory_check"))
         => lastResponse' = IF MatchedStock(text) > 0
                              THEN Reply("available", hindi, MatchedStock(text))
                              ELSE Reply("out_of_stock", hindi, 0)]_vars

\* C8: an order intent for quantity q whose best match has stock >= q
\* creates one confirmed OrderRecord with requestedQty q for that item and
\* replies "order confirmed".
C8_OrderConfirmed ==
  [][\A text \in ReplyTexts, hindi \in BOOLEAN :
       (IntentTurn(text, hindi) /\ ResolvesTo(text, "order_intent") /\ text.quantity # 0
          /\ MatchedStock(text) >= text.quantity)
         => /\ lastResponse' = Reply("order_confirmed", hindi, text.quantity)
            /\ Len(orders') = Len(orders) + 1
            /\ orders'[Len(orders')].status = "confirmed"
            /\ orders'[Len(orders')].requestedQty = text.quantity
            /\ orders'[Len(orders')].productName
                 = catalog[BestMatch(catalog, text.productName)].productName]_vars

\* C9: an order intent for quantity q whose best match has stock N < q is
\* answered "only N available" (N > 0) or "out of stock" (N = 0), and
\* leaves the order records and the catalog unchanged.
C9_InsufficientStockNoOrder ==
  [][\A text \in ReplyTexts, hindi \in BOOLEAN :
       (IntentTurn(text, hindi) /\ ResolvesTo(text, "order_intent") /\ text.quantity # 0
          /\ MatchedStock(text) < text.quantity)
         => /\ lastResponse' = IF MatchedStock(text) > 0
                                 THEN Reply("only_n_available", hindi, MatchedStock(text))
                                 ELSE Reply("out_of_stock", hindi, 0)
            /\ orders' = orders
            /\ catalog' = catalog]_vars

\* C10: every confirmed OrderRecord had, when its status was set to
\* confirmed, a matched catalog item whose availableStock covered its
\* requestedQty.
C10_ConfirmedOnlyIfCovered ==
  \A i \in DOMAIN orders : orders[i].status = "confirmed" => orders[i].covered

\* C11: an OrderRecord's status only moves from pending to confirmed or to
\* rejected: in every step, a record that is confirmed or rejected keeps
\* its status.
C11_StatusOnlyLeavesPending ==
  [][\A i \in DOMAIN orders :
       orders[i].status # "pending" => orders'[i].status = orders[i].status]_vars

\* the record i is confirmed by this step
BecomesConfirmed(i) ==
  /\ orders'[i].status = "confirmed"
  /\ (i \in DOMAIN orders => orders[i].status # "confirmed")

\* C12: whenever an OrderRecord becomes confirmed, the stock of its matched
\* catalog item after the step is the stock before minus requestedQty.
C12_ConfirmationDecrementsStock ==
  [][\A i \in DOMAIN orders' :
       BecomesConfirmed(i) =>
         \E p \in DOMAIN catalog :
           /\ catalog[p].productName = orders'[i].productName
           /\ catalog'[p].availableStock = catalog[p].availableStock - orders'[i].requestedQty]_vars

\* C13: every catalog item has availableStock >= 0 in every state reached
\* by add, CSV upload, update-stock and admin order confirmations, the
\* confirmations running concurrently.
C13_StockNonNegative ==
  \A i \in DOMAIN catalog : catalog[i].availableStock >= 0

\* C13 witness: a confirmation about to write the stock it read before
\* another request lowered the stock of the same product
C13_Witness ==
  \E w \in Workers :
    /\ patchPc[w] = "found"
    /\ patchProduct[w].idx # 0
    /\ patchProduct[w].stock >= orders[patchReq[w]].requestedQty
    /\ catalog[patchProduct[w].idx].availableStock < patchProduct[w].stock
    /\ \E v \in Workers \ {w} : patchPc[v] = "idle"

\* C14: a webhook turn with inventory enabled whose intent call succeeds
\* ends with one non-empty reply, persisted as the bot message and
\* returned: the response of the inventory pipeline, or the provider's reply.
C14_InventoryTurnReplies ==
  (turn.route = "webhook" /\ turn.step = "ok") =>
    /\ turn.status = "replied"
    /\ turn.persisted
    /\ turn.reply # UndefinedText
    /\ turn.reply = lastResponse \/ turn.reply.t \in ProviderReplies
    /\ turn.intentData.intent \in {"inventory_check", "order_intent"} => turn.reply = lastResponse

C16_ProviderFailurePropagates ==
  (turn.status # "none" /\ \E i \in DOMAIN turn.calls : ~turn.calls[i].ok) =>
    /\ turn.status = "error"
    /\ ~turn.persisted

\* {intent: 'other', productName: null, quantity: null}
OtherIntent == [intent |-> "other", productName |-> NoName, quantity |-> 0]

\* C17: when the LLM's text for the intent call is not parseable as JSON,
\* /intent does not raise: the resolved intent is {other, null, null} and
\* the response is that of the 'other' branch, with no order recorded.
C17_MalformedReplyIsOther ==
  (turn.step = "ok" /\ turn.text = Garbage) =>
    /\ turn.intentData = OtherIntent
    /\ lastResponse.t = "help"
    /\ orders = <<>>

\* C17 witness: a turn whose intent call returned text that is not JSON
C17_Witness ==
  /\ turn.step = "ok"
  /\ turn.text = Garbage
  /\ lastResponse.t = "help"

\* the config names one of the registered providers
NamesRegistered(config) ==
  config.shape = "named" /\ LowerName(config.provider) \in Clients

\* C18: getClient returns the registered client of the named provider, and
\* the default provider's client for every other config.
C18_GetClientDefaultOrExact ==
  selected.called =>
    selected.client = IF NamesRegistered(selected.config)
                        THEN LowerName(selected.config.provider)
                        ELSE defaultProvider

\* C19: the k-th backoff delay of an invocation (k = 1, 2) is at least
\* 2^k * 1000 ms and at most 10000 ms, for both clients and every jitter.
C19_BackoffDelayBounds ==
  /\ Len(delays) <= 2
  /\ \A k \in DOMAIN delays : delays[k] >= Pow2(k) * 1000 /\ delays[k] <= 10000

\* C19 witness: a MistralClient invocation that waited two backoff delays,
\* the second with the largest jitter
C19_Witness ==
  /\ Len(delays) = 2
  /\ client = "mistral"
  /\ delays[2] = 4999

\* C20: every invocation eventually leaves its retry loop (it returns or
\* fails), each HTTP attempt returning, and makes at most 3 attempts.
C20_InvocationsComplete ==
  /\ [](attempts <= maxRetries)
  /\ (pc = "call") ~> (pc # "call")

\* C20 witness: an invocation that failed after 3 attempts
C20_Witness ==
  /\ Failed
  /\ attempts = maxRetries
  /\ retries = maxRetries

IsContentCall(x) == x.k = "content"

IsDeltaLine(l) == l.t = "delta"

\* the content calls among the calls of onChunk, in order
ContentsReceived(calls) == SelectSeq(calls, IsContentCall)

\* the content calls the content-delta lines of a stream stand for, in order
ContentCallsOf(ls) ==
  LET d == SelectSeq(ls, IsDeltaLine) IN [i \in 1..Len(d) |-> ContentCall(d[i].c)]

NoDoneIn(ls) == \A i \in DOMAIN ls : ls[i].t # "done"

\* C22: a line whose payload is not JSON does not end the processing of the
\* stream: with every data event ending at a line end, the content-delta
\* lines before and after it reach onChunk in order, and no error call is made.
C22_UnparseableLineSkipped ==
  (mode = "stream" /\ outcome.status = "ok" /\ aligned /\ NoDoneIn(sent)
     /\ \E i \in DOMAIN sent : sent[i].t = "bad")
    => /\ ContentsReceived(sink) = ContentCallsOf(sent)
       /\ \A i \in DOMAIN sink : sink[i].k # "error"

\* C22 witness: an unparseable line, then a content delta that was forwarded
C22_Witness ==
  /\ mode = "stream"
  /\ client = "openai"
  /\ aligned
  /\ Len(sent) >= 2
  /\ sent[1].t = "bad"
  /\ sent[2].t = "delta"
  /\ sink = <<ContentCall(sent[2].c)>>

\* C25: MistralClient and OpenAIClient make the same retry-or-fail decision
\* for every error an attempt ends with.
C25_SameRetryDecision ==
  (pc # "idle" /\ lastErr # NoErr)
    => Mistral_shouldRetryRequest(lastErr) = OpenAI_shouldRetryRequest(lastErr)

\* C27: the contents passed to onChunk do not depend on how the stream is
\* split into data events: once every line sent has arrived whole or in
\* parts, onChunk has received the contents of its content-delta lines in order.
C27_ContentsIgnoreChunking ==
  (mode = "stream" /\ outcome.status = "ok" /\ ~midLine /\ NoDoneIn(sent))
    => ContentsReceived(sink) = ContentCallsOf(sent)

\* C30: a status update to confirmed for an order that is already confirmed
\* leaves the catalog's stock unchanged.
C30_ConfirmIdempotent ==
  [][\A id \in DOMAIN orders :
       (orders[id].status = "confirmed" /\ AdminOrderStatus(id, "confirmed"))
         => catalog' = catalog]_vars

\* C21: two generateResponse invocations interleaved on one singleton
\* client each count only their own failed attempts: a step of one leaves
\* the other's counter, attempts, delays and outcome as they were; an
\* invocation in flight has made one attempt and waited one delay per own
\* retry, its k-th delay being the backoff of its own k-th retry; and one
\* that ended on a retryable error made exactly maxRetries attempts.
C21_InvocationsIndependent ==
  [][\A i \in Invocations :
       LET j == CHOOSE k \in Invocations : k # i
           a == inFlight'[i]
       IN (inFlight'[i] # inFlight[i]) =>
            /\ inFlight'[j] = inFlight[j]
            /\ a.pc = "call" => (a.attempts = a.retries /\ Len(a.delays) = a.retries)
            /\ \A k \in DOMAIN a.delays :
                 \E jit \in Jitters : a.delays[k] = backoffDelay(a.client, k, jit)
            /\ (a.pc = "done" /\ a.outcome.status = "ok") => a.attempts = Len(a.delays) + 1
            /\ (a.pc = "done" /\ a.outcome.status = "failed"
                  /\ shouldRetryRequest(a.client, a.lastErr) = "retry")
                 => (a.attempts = maxRetries /\ Len(a.delays) = maxRetries - 1)
            /\ (a.pc = "done" /\ a.outcome.status = "failed"
                  /\ shouldRetryRequest(a.client, a.lastErr) # "retry")
                 => a.attempts = Len(a.delays) + 1]_vars

\* C21 witness: both invocations in flight on the same client, one after two
\* failed attempts and the other after one
C21_Witness ==
  /\ inFlight["i1"].pc = "call"
  /\ inFlight["i2"].pc = "call"
  /\ inFlight["i1"].client = inFlight["i2"].client
  /\ inFlight["i1"].retries = 2
  /\ inFlight["i2"].retries = 1

\* C23: the message list of every request posted to a vendor, buffered or
\* streamed, is one system message followed by the history in order, each
\* bot message sent as assistant and each user message as user; no history
\* message is sent as a system message, and none but a user message is
\* sent as user.
C23_SystemFirstThenHistory ==
  request.route # "none" =>
    LET h == request.history
        ms == request.body.messages
    IN /\ Len(ms) = Len(h) + 1
       /\ ms[1].role = "system"
       /\ \A k \in DOMAIN h :
            /\ ms[k + 1].content = h[k].content
            /\ ms[k + 1].note = h[k].note
            /\ ms[k + 1].role # "system"
            /\ h[k].role = "bot" => ms[k + 1].role = "assistant"
            /\ (ms[k + 1].role = "user") <=> (h[k].role = "user")

\* the intents JSON.parse can yield
ParsedIntents ==
  [intent : Intents, productName : Queries \cup {NoName}, quantity : {0} \cup Quantities]

\* C24: the reply of an /intent turn is in Hindi exactly when the utterance
\* holds a code point in U+0900..U+097F, and every branch of the route
\* takes the language of its reply from that test.
C24_ReplyLanguageFromUtterance ==
  /\ request.route = "intent" =>
       (lastResponse.hindi <=>
          \E i \in DOMAIN request.utterance :
            request.utterance[i] \in 2304..2431)
  /\ \A d \in ParsedIntents, h \in BOOLEAN : IntentOutcome(d, h).reply.hindi = h

\* C24 witness: a turn whose utterance mixes a Latin letter with a
\* Devanagari one, answered in Hindi
C24_Witness ==
  /\ request.route = "intent"
  /\ lastResponse.hindi
  /\ request.utterance = <<97, 2431>>

\* C26: a response streamed through AIClientManager.generateStreamingResponse
\* delivers each content delta, and the completion, to the caller's onChunk,
\* and the request carries the config's model, temperature and max_tokens.
C26_ManagerStreamDelivers ==
  request.route = "stream" =>
    /\ request.body.model = request.settings.model
    /\ request.body.temperature = request.settings.temperature
    /\ request.body.max_tokens = request.settings.max_tokens
    /\ ContentsReceived(request.received)
         = [k \in 1..Len(request.deltas) |-> ContentCall(request.deltas[k])]
    /\ request.ended => (request.received # <<>>
                           /\ request.received[Len(request.received)] = DoneCall)

\* C28: the history a turn sends ends with the user message the turn has
\* just saved, and the session routes append the inventory context to it.
C28_HistoryEndsWithNewMessage ==
  request.route \in TurnRoutes =>
    LET h == request.history IN
      /\ h # <<>>
      /\ h[Len(h)].role = "user"
      /\ h[Len(h)].content = request.turnMessage
      /\ request.route # "webhook" => h[Len(h)].note = request.context

\* C29: the inventory context a session turn composes holds the products
\* of the session's own configuration and nothing else.
C29_ContextFromOwnCatalog ==
  [][(request'.route \in {"session", "public"} /\ request' # request)
       => request'.context = {catalog[i] : i \in DOMAIN catalog}]_vars

====
